---- MODULE Spec2Model ----
(***************************************************************************)
(* A model of the rox tree-walking interpreter: the value-cloned           *)
(* environment chain (env.rs) and the statement / expression evaluator     *)
(* (interpreter.rs).  The interpreter runs one program, a sequence of      *)
(* statement trees; `ctl` is the interpreter's position in that program:   *)
(* the statements (and pending block exits) still to be executed, the      *)
(* host-language recursion of execute() unfolded into a stack.             *)
(***************************************************************************)
EXTENDS Integers, Sequences, FiniteSets, TLC

VARIABLES prog, env, out, log, status, ctl, scanner, parser

vars == <<prog, env, out, log, status, ctl, scanner, parser>>

(***************************************************************************)
(* Bounds of the model.                                                    *)
(***************************************************************************)
\* deepest block nesting of the scope programs
MaxDepth == 3
\* largest loop bound n of the counting loop `while (x < n)`
MaxN == 4

(***************************************************************************)
(* token.rs: runtime values (Literal) and the operator token kinds.        *)
(* A Number is an f64; it is modelled as a normalised fraction n/d, d > 0, *)
(* which is exact for the small operands used here.                        *)
(***************************************************************************)
RECURSIVE Gcd(_, _)
Gcd(a, b) == IF b = 0 THEN a ELSE Gcd(b, a % b)

Abs(a) == IF a < 0 THEN 0 - a ELSE a

Number(n, d) ==
    LET s == IF d < 0 THEN 0 - 1 ELSE 1
        g == Gcd(Abs(n), Abs(d))
    IN  [t |-> "Number", n |-> (s * n) \div g, d |-> (s * d) \div g]

Num(n) == Number(n, 1)

String(s) == [t |-> "String", s |-> s]

Bool(b) == [t |-> "Bool", b |-> b]

Nil == [t |-> "Nil"]

\* the text `{}` renders for a value (impl Display for Literal / Object)
fmt(v) ==
    CASE v.t = "Number" -> IF v.d = 1 THEN ToString(v.n)
                           ELSE ToString(v.n) \o "/" \o ToString(v.d)
      [] v.t = "String" -> v.s
      [] v.t = "Bool"   -> IF v.b THEN "true" ELSE "false"
      [] v.t = "Nil"    -> "nil"

(***************************************************************************)
(* expression.rs / statement.rs: the syntax trees.                         *)
(***************************************************************************)
Literal(v) == [t |-> "Literal", v |-> v]

Grouping(e) == [t |-> "Grouping", e |-> e]

Unary(op, r) == [t |-> "Unary", op |-> op, r |-> r]

Binary(l, op, r) == [t |-> "Binary", l |-> l, op |-> op, r |-> r]

Logical(l, op, r) == [t |-> "Logical", l |-> l, op |-> op, r |-> r]

Var(name) == [t |-> "VarExpr", name |-> name]

Assign(name, e) == [t |-> "Assign", name |-> name, e |-> e]

PrintStmt(e) == [t |-> "Print", e |-> e]

ExpressionStmt(e) == [t |-> "Expression", e |-> e]

\* Stmt::Var(token, Option<Expr>): init is <<e>> for Some(e), <<>> for None
VarStmt(name, init) == [t |-> "Var", name |-> name, init |-> init]

BlockStmt(body) == [t |-> "Block", body |-> body]

\* Stmt::If(cond, then, Option<else>): els is <<s>> for Some(s), <<>> for None
IfStmt(c, th, els) == [t |-> "If", c |-> c, th |-> th, els |-> els]

WhileStmt(c, body) == [t |-> "While", c |-> c, body |-> body]

(***************************************************************************)
(* env.rs: an Env owns its HashMap and, boxed, a clone of the enclosing    *)
(* Env.  Nothing is shared, so the chain is the sequence of its scopes,    *)
(* global scope first, the current (innermost) scope last.  A scope is a   *)
(* function on the identifiers; Absent marks a key the HashMap lacks.      *)
(***************************************************************************)
Names == {"x", "y"}

Absent == [t |-> "Absent"]

\* Env::new(enclosing): enclosing is <<>> for None
env_new(enclosing) == Append(enclosing, [n \in Names |-> Absent])

\* a define that writes the binding through to every scope of the chain
define_outward(e, ident, value) ==
    [j \in 1..Len(e) |-> [e[j] EXCEPT ![ident] = value]]

\* Env::define: insert / overwrite in this scope, always Ok
define(e, ident, value) == [e EXCEPT ![Len(e)][ident] = value]

\* Env::get_enclosing
get_enclosing(e) == SubSeq(e, 1, Len(e) - 1)

\* an assign that never reaches the enclosing scope: a name the current
\* scope lacks is bound there
assign_current(e, ident, value) ==
    IF e[Len(e)][ident] # Absent \/ Len(e) > 1
    THEN [ok |-> TRUE, env |-> define(e, ident, value)]
    ELSE [ok |-> FALSE, env |-> e]

\* Env::assign: Ok carries the updated chain, Err(VarAssign) leaves it
assign(e, ident, value) ==
    IF e[Len(e)][ident] # Absent
    THEN [ok |-> TRUE, env |-> define(e, ident, value)]
    ELSE IF Len(e) > 1
         THEN [ok |-> TRUE,
               env |-> Append(define(get_enclosing(e), ident, value), e[Len(e)])]
         ELSE [ok |-> FALSE, env |-> e]

\* Env::get: Ok(value) or Err(VarNotFound)
RECURSIVE get(_, _)
get(e, ident) ==
    IF e[Len(e)][ident] # Absent
    THEN [ok |-> TRUE, v |-> e[Len(e)][ident]]
    ELSE IF Len(e) > 1
         THEN get(get_enclosing(e), ident)
         ELSE [ok |-> FALSE, v |-> Nil]

(***************************************************************************)
(* error.rs: Log::error prints the message it is given, nothing else.  A   *)
(* diagnostic is the message text and the line number it carries; none of  *)
(* the interpreter's messages is formatted with a line, hence NoLine.      *)
(***************************************************************************)
NoLine == "none"

error(lg, message) == Append(lg, [message |-> message, line |-> NoLine])

(***************************************************************************)
(* interpreter.rs: expression evaluation.  An evaluation yields the value  *)
(* together with the environment and the log it leaves behind; ok = FALSE  *)
(* is a panic (panic!() or unwrap() of an Err), which unwinds the process. *)
(***************************************************************************)
Ok(v, en, lg) == [ok |-> TRUE, v |-> v, env |-> en, log |-> lg]

Panic(en, lg) == [ok |-> FALSE, v |-> Nil, env |-> en, log |-> lg]

\* the usual convention: everything but false and nil is truthy
is_truthy_usual(obj) ==
    CASE obj.t = "Bool" -> obj.b
      [] obj.t = "Nil"  -> FALSE
      [] OTHER          -> TRUE

is_truthy(obj) ==
    CASE obj.t = "Bool"   -> obj.b
      [] obj.t = "Number" -> obj.n = 0
      [] obj.t = "String" -> Len(obj.s) = 0
      [] obj.t = "Nil"    -> FALSE

eval_literal(lit_val, en, lg) == Ok(lit_val, en, lg)

\* the arithmetic arms of eval_binary: both operands Number, else the
\* "Cannot apply" diagnostic and a panic; SLASH also refuses a zero divisor
ArithOps == {"MINUS", "PLUS", "STAR", "SLASH"}

OpText(op) ==
    CASE op = "MINUS" -> "-" [] op = "PLUS" -> "+"
      [] op = "STAR" -> "*" [] op = "SLASH" -> "/"

Arith(op, l, r) ==
    CASE op = "MINUS" -> Number(l.n * r.d - r.n * l.d, l.d * r.d)
      [] op = "PLUS"  -> Number(l.n * r.d + r.n * l.d, l.d * r.d)
      [] op = "STAR"  -> Number(l.n * r.n, l.d * r.d)
      [] op = "SLASH" -> Number(l.n * r.d, l.d * r.n)

\* an eval_arith without the zero-divisor test: the division yields inf
eval_arith_unchecked(op, l, r, en, lg) ==
    IF l.t = "Number" /\ r.t = "Number"
    THEN IF op = "SLASH" /\ r.n = 0
         THEN Ok(String("inf"), en, lg)
         ELSE Ok(Arith(op, l, r), en, lg)
    ELSE Panic(en, error(lg, "Cannot apply " \o OpText(op) \o " to '"
                              \o fmt(l) \o "' and '" \o fmt(r) \o "'"))

eval_arith(op, l, r, en, lg) ==
    IF l.t = "Number" /\ r.t = "Number"
    THEN IF op = "SLASH" /\ r.n = 0
         THEN Panic(en, error(lg, "Cannot divide by zero"))
         ELSE Ok(Arith(op, l, r), en, lg)
    ELSE Panic(en, error(lg, "Cannot apply " \o OpText(op) \o " to '"
                              \o fmt(l) \o "' and '" \o fmt(r) \o "'"))

\* the comparison arms of eval_binary that exist: LESS, EQUAL_EQUAL,
\* GREATER, GREATER_EQUAL
CompareOps == {"LESS", "EQUAL_EQUAL", "GREATER", "GREATER_EQUAL"}

Compare(op, l, r) ==
    CASE op = "LESS"          -> l.n * r.d < r.n * l.d
      [] op = "EQUAL_EQUAL"   -> l.n * r.d = r.n * l.d
      [] op = "GREATER"       -> l.n * r.d > r.n * l.d
      [] op = "GREATER_EQUAL" -> l.n * r.d >= r.n * l.d

eval_compare(op, l, r, en, lg) ==
    IF l.t = "Number" /\ r.t = "Number"
    THEN Ok(Bool(Compare(op, l, r)), en, lg)
    ELSE Panic(en, error(lg, "Cannot compare non-numbers."))

RECURSIVE eval_expr(_, _, _)
RECURSIVE eval_unary(_, _, _, _)
RECURSIVE eval_binary(_, _, _, _, _)
RECURSIVE eval_logical(_, _, _, _, _)
RECURSIVE assign_expr(_, _, _, _)

eval_group(g_val, en, lg) ==
    IF g_val.t = "Literal" THEN eval_literal(g_val.v, en, lg)
    ELSE eval_expr(g_val, en, lg)

eval_unary(op, right, en, lg) ==
    LET r == eval_expr(right, en, lg) IN
    IF ~r.ok THEN r
    ELSE CASE op = "MINUS" ->
                IF r.v.t = "Number"
                THEN Ok(Number(0 - r.v.n, r.v.d), r.env, r.log)
                ELSE Panic(r.env, r.log)
           [] op = "BANG" ->
                Ok(Bool(CASE r.v.t = "Bool"   -> ~r.v.b
                          [] r.v.t = "String" -> Len(r.v.s) > 0
                          [] r.v.t = "Nil"    -> FALSE
                          [] r.v.t = "Number" -> r.v.n = 0),
                   r.env, r.log)
           [] OTHER -> Panic(r.env, r.log)

eval_binary(left, op, right, en, lg) ==
    LET l == eval_expr(left, en, lg) IN
    IF ~l.ok THEN l
    ELSE LET r == eval_expr(right, l.env, l.log) IN
         IF ~r.ok THEN r
         ELSE CASE op \in ArithOps   -> eval_arith(op, l.v, r.v, r.env, r.log)
                [] op \in CompareOps -> eval_compare(op, l.v, r.v, r.env, r.log)
                [] OTHER -> Panic(r.env, r.log)

\* an eval_logical that evaluates both operands before it chooses
eval_logical_eager(left, op, right, en, lg) ==
    LET left_val == eval_expr(left, en, lg)
        right_val == eval_expr(right, left_val.env, left_val.log)
        decided == IF op = "OR" THEN is_truthy(left_val.v)
                   ELSE ~is_truthy(left_val.v)
    IN  IF ~left_val.ok THEN left_val
        ELSE IF ~right_val.ok THEN right_val
        ELSE IF decided THEN [right_val EXCEPT !.v = left_val.v]
        ELSE right_val

eval_logical(left, op, right, en, lg) ==
    LET left_val == eval_expr(left, en, lg)
        is_op_or == (op = "OR")
    IN  IF ~left_val.ok THEN left_val
        ELSE IF is_op_or /\ is_truthy(left_val.v) THEN left_val
        ELSE IF ~is_op_or /\ ~is_truthy(left_val.v) THEN left_val
        ELSE eval_expr(right, left_val.env, left_val.log)

\* an assign_expr that yields the assigned value
assign_expr_value(name, expr, en, lg) ==
    LET expr_val == eval_expr(expr, en, lg) IN
    IF ~expr_val.ok THEN expr_val
    ELSE LET a == assign(expr_val.env, name, expr_val.v) IN
         IF a.ok THEN Ok(expr_val.v, a.env, expr_val.log)
         ELSE Panic(expr_val.env, expr_val.log)

assign_expr(name, expr, en, lg) ==
    LET expr_val == eval_expr(expr, en, lg) IN
    IF ~expr_val.ok THEN expr_val
    ELSE LET a == assign(expr_val.env, name, expr_val.v) IN
         IF a.ok THEN Ok(Nil, a.env, expr_val.log)
         ELSE Panic(expr_val.env, expr_val.log)

eval_expr(expr, en, lg) ==
    CASE expr.t = "Literal"  -> eval_literal(expr.v, en, lg)
      [] expr.t = "Grouping" -> eval_group(expr.e, en, lg)
      [] expr.t = "Unary"    -> eval_unary(expr.op, expr.r, en, lg)
      [] expr.t = "Binary"   -> eval_binary(expr.l, expr.op, expr.r, en, lg)
      [] expr.t = "VarExpr"  ->
            LET g == get(en, expr.name) IN
            IF g.ok THEN Ok(g.v, en, lg) ELSE Panic(en, lg)
      [] expr.t = "Assign"   -> assign_expr(expr.name, expr.e, en, lg)
      [] expr.t = "Logical"  -> eval_logical(expr.l, expr.op, expr.r, en, lg)

\* eval_var_expr: the binding half of a `var` statement
eval_var_expr(name, initializer, en) == define(en, name, initializer)

(***************************************************************************)
(* scanner.rs: the source text is the sequence of its chars.  Rust keeps   *)
(* it as UTF-8: String::len() and the slices &source[s..e] count bytes,    *)
(* chars().nth(i) counts chars, and a slice whose ends are not char        *)
(* boundaries panics.  Width is char::len_utf8.  The scanner record holds  *)
(* the fields of struct Scanner; status is the position of scan_tokens:    *)
(* "running" inside its loop, "done" once it returned, "panicked" when the *)
(* process unwound.                                                        *)
(***************************************************************************)
\* a two-byte char (U+00E9) and the "\0" that peek returns at the end
EAcute == "U+00E9"

NUL == "U+0000"

NonAscii == {EAcute}

Width(c) == IF c \in NonAscii THEN 2 ELSE 1

\* chars 32..126 in code order (U+0060 is the backquote)
Printable ==
    <<" ", "!", "\"", "#", "$", "%", "&", "'", "(", ")", "*", "+", ",",
      "-", ".", "/", "0", "1", "2", "3", "4", "5", "6", "7", "8", "9", ":",
      ";", "<", "=", ">", "?", "@", "A", "B", "C", "D", "E", "F", "G", "H",
      "I", "J", "K", "L", "M", "N", "O", "P", "Q", "R", "S", "T", "U", "V",
      "W", "X", "Y", "Z", "[", "\\", "]", "^", "_", "U+0060", "a", "b", "c",
      "d", "e", "f", "g", "h", "i", "j", "k", "l", "m", "n", "o", "p", "q",
      "r", "s", "t", "u", "v", "w", "x", "y", "z", "{", "|", "}", "~">>

\* x.bytes().next().unwrap(): the first UTF-8 byte of a char
Byte(c) ==
    CASE c = NUL    -> 0
      [] c = "\t"   -> 9
      [] c = "\n"   -> 10
      [] c = "\r"   -> 13
      [] c = EAcute -> 195
      [] OTHER      -> 31 + (CHOOSE i \in 1..Len(Printable) : Printable[i] = c)

RECURSIVE ByteLen(_)
\* String::len(): the length in bytes
ByteLen(source) ==
    IF source = <<>> THEN 0
    ELSE Width(Head(source)) + ByteLen(Tail(source))

\* the byte offset at which the i-th char (from 1) starts
Offset(source, i) == ByteLen(SubSeq(source, 1, i - 1))

\* &source[s..e]: the chars between byte offsets s and e; not ok is the
\* panic of a range that is reversed, out of bounds or off a char boundary
Slice(source, s, e) ==
    LET ends == 1..(Len(source) + 1) IN
    IF /\ s <= e
       /\ \E i \in ends : Offset(source, i) = s
       /\ \E j \in ends : Offset(source, j) = e
    THEN [ok |-> TRUE,
          v  |-> SubSeq(source,
                        CHOOSE i \in ends : Offset(source, i) = s,
                        (CHOOSE j \in ends : Offset(source, j) = e) - 1)]
    ELSE [ok |-> FALSE, v |-> <<>>]

\* None of chars().nth(n)
NoChar == "NoChar"

\* source.chars().nth(n)
nth(source, n) == IF n < Len(source) THEN source[n + 1] ELSE NoChar

RECURSIVE Join(_)
\* the String made of a sequence of chars
Join(chars) == IF chars = <<>> THEN "" ELSE Head(chars) \o Join(Tail(chars))

Token(type, lexeme, line, literal) ==
    [type |-> type, lexeme |-> lexeme, line |-> line, literal |-> literal]

\* keywords.rs
get_keywords ==
    { <<"and", "AND">>, <<"class", "CLASS">>, <<"else", "ELSE">>,
      <<"false", "FALSE">>, <<"for", "FOR">>, <<"fun", "FUN">>,
      <<"if", "IF">>, <<"nil", "NIL">>, <<"or", "OR">>,
      <<"print", "PRINT">>, <<"return", "RETURN">>, <<"super", "SUPER">>,
      <<"this", "THIS">>, <<"true", "TRUE">>, <<"var", "VAR">>,
      <<"while", "WHILE">> }

Scanner_new(source, logger) ==
    [source |-> source, tokens |-> <<>>, start |-> 0, current |-> 0,
     line |-> 1, logger |-> logger, status |-> "running"]

\* unwrap() of a None, an invalid slice or panic!(): the process unwinds
Unwind(s) == [s EXCEPT !.status = "panicked"]

Scanner_is_at_end(s) == s.current >= ByteLen(s.source)

\* an advance that steps over two chars at a time
advance_skip(s) ==
    LET c == nth(s.source, s.current) IN
    IF s.status = "panicked" \/ c = NoChar
    THEN [c |-> NoChar, s |-> Unwind(s)]
    ELSE [c |-> c, s |-> [s EXCEPT !.current = @ + 2]]

\* advance: the char at `current` and the scanner moved past it
Scanner_advance(s) ==
    LET c == nth(s.source, s.current) IN
    IF s.status = "panicked" \/ c = NoChar
    THEN [c |-> NoChar, s |-> Unwind(s)]
    ELSE [c |-> c, s |-> [s EXCEPT !.current = @ + 1]]

\* peek: NoChar is the unwrap() of a None
Scanner_peek(s) ==
    IF Scanner_is_at_end(s) THEN NUL ELSE nth(s.source, s.current)

peek_next(s) ==
    IF Scanner_is_at_end(s) \/ s.current + 1 >= ByteLen(s.source) THEN NUL
    ELSE nth(s.source, s.current + 1)

match_char(s, expected) ==
    IF s.status = "panicked" THEN [matched |-> FALSE, s |-> s]
    ELSE IF Scanner_is_at_end(s) THEN [matched |-> FALSE, s |-> s]
    ELSE LET c == Scanner_peek(s) IN
         IF c = NoChar THEN [matched |-> FALSE, s |-> Unwind(s)]
         ELSE IF c # expected THEN [matched |-> FALSE, s |-> s]
         ELSE [matched |-> TRUE, s |-> [s EXCEPT !.current = @ + 1]]

Digits == <<"0", "1", "2", "3", "4", "5", "6", "7", "8", "9">>

\* is_digit: a one-char text parses as an i32 exactly when it is a digit
is_digit(x) == \E i \in 1..Len(Digits) : Digits[i] = x

is_alpha(x) ==
    LET utf8_code == Byte(x) IN
    \/ utf8_code > 64 /\ utf8_code < 65
    \/ utf8_code > 96 /\ utf8_code < 123
    \/ utf8_code = 95

is_alphanumeric(x) == is_alpha(x) \/ is_digit(x)

RECURSIVE line_comment(_)
\* get_token_type, "//": while peek() != "\n" && !is_at_end() { advance }
line_comment(s) ==
    IF s.status = "panicked" THEN s
    ELSE LET c == Scanner_peek(s) IN
         IF c = NoChar THEN Unwind(s)
         ELSE IF c # "\n" /\ ~Scanner_is_at_end(s)
              THEN line_comment(Scanner_advance(s).s)
              ELSE s

RECURSIVE string_body(_)
\* the loop of parse_string
string_body(s) ==
    IF s.status = "panicked" THEN s
    ELSE LET c == Scanner_peek(s) IN
         IF c = NoChar THEN Unwind(s)
         ELSE IF c # "\"" /\ ~Scanner_is_at_end(s)
              THEN string_body(Scanner_advance(
                       [s EXCEPT !.line = IF c = "\n" THEN @ + 1 ELSE @]).s)
              ELSE s

parse_string(s) ==
    LET b == string_body(s) IN
    IF b.status = "panicked" THEN b
    ELSE IF Scanner_is_at_end(b)
    THEN [b EXCEPT !.logger = error(@, "Syntax Error: Unterminated string")]
    ELSE LET a == Scanner_advance(b).s
             str_val == Slice(a.source, a.start + 1, a.current - 1)
         IN  IF a.status = "panicked" THEN a
             ELSE IF ~str_val.ok THEN Unwind(a)
             ELSE [a EXCEPT !.tokens =
                      Append(@, Token("STRING", "", a.line,
                                      String(Join(str_val.v))))]

RECURSIVE digits(_)
\* while is_digit(peek()) { advance }
digits(s) ==
    IF s.status = "panicked" THEN s
    ELSE LET c == Scanner_peek(s) IN
         IF c = NoChar THEN Unwind(s)
         ELSE IF is_digit(c) THEN digits(Scanner_advance(s).s)
         ELSE s

\* the text is digits with at most one "." among them
IsDecimal(chars) ==
    /\ \E i \in 1..Len(chars) : is_digit(chars[i])
    /\ \A i \in 1..Len(chars) : is_digit(chars[i]) \/ chars[i] = "."
    /\ \A i, j \in 1..Len(chars) : (chars[i] = "." /\ chars[j] = ".") => i = j

DigitVal(c) == (CHOOSE i \in 1..Len(Digits) : Digits[i] = c) - 1

RECURSIVE Decimal(_, _, _, _)
\* parse::<f64>() of a decimal text: the number it denotes
Decimal(chars, n, d, frac) ==
    IF chars = <<>> THEN Number(n, d)
    ELSE IF Head(chars) = "." THEN Decimal(Tail(chars), n, d, TRUE)
    ELSE Decimal(Tail(chars), n * 10 + DigitVal(Head(chars)),
                 IF frac THEN d * 10 ELSE d, frac)

parse_number(s) ==
    LET a == digits(s)
        dot == /\ a.status # "panicked"
               /\ Scanner_peek(a) = "."
        next == peek_next(a)
        b == IF a.status = "panicked" \/ ~dot THEN a
             ELSE IF next = NoChar THEN Unwind(a)
             ELSE IF is_digit(next) THEN digits(Scanner_advance(a).s)
             ELSE a
        text == Slice(b.source, b.start, b.current)
    IN  IF b.status = "panicked" THEN b
        ELSE IF ~text.ok \/ ~IsDecimal(text.v) THEN Unwind(b)
        ELSE [b EXCEPT !.tokens =
                 Append(@, Token("NUMBER", "", b.line,
                                 Decimal(text.v, 0, 1, FALSE)))]

RECURSIVE word(_)
\* while is_alphanumeric(peek()) { advance }
word(s) ==
    IF s.status = "panicked" THEN s
    ELSE LET c == Scanner_peek(s) IN
         IF c = NoChar THEN Unwind(s)
         ELSE IF is_alphanumeric(c) THEN word(Scanner_advance(s).s)
         ELSE s

parse_identifier(s) ==
    LET a == word(s)
        lexeme == Slice(a.source, a.start, a.current)
        text == Join(lexeme.v)
        token_type == IF \E k \in get_keywords : k[1] = text
                      THEN (CHOOSE k \in get_keywords : k[1] = text)[2]
                      ELSE "IDENTIFIER"
    IN  IF a.status = "panicked" THEN a
        ELSE IF ~lexeme.ok THEN Unwind(a)
        ELSE [a EXCEPT !.tokens = Append(@, Token(token_type, text, a.line, Nil))]

RECURSIVE comment_body(_)
\* the loop of parse_block_comments:
\* while peek() != "*" && peek_next() != "/" { advance, count a "\n" }
comment_body(s) ==
    IF s.status = "panicked" THEN s
    ELSE LET c == Scanner_peek(s)
             n == peek_next(s)
         IN  IF c = NoChar THEN Unwind(s)
             ELSE IF c = "*" THEN s
             ELSE IF n = NoChar THEN Unwind(s)
             ELSE IF n = "/" THEN s
             ELSE LET a == Scanner_advance(s) IN
                  comment_body(IF a.c = "\n"
                               THEN [a.s EXCEPT !.line = @ + 1] ELSE a.s)

parse_block_comments(s) ==
    Scanner_advance(Scanner_advance(comment_body(s)).s).s

\* the arms of get_token_type that are one char and one token
SingleChars ==
    { <<"(", "LEFT_PAREN">>, <<")", "RIGHT_PAREN">>, <<"{", "LEFT_BRACE">>,
      <<"}", "RIGHT_BRACE">>, <<",", "COMMA">>, <<".", "DOT">>,
      <<"-", "MINUS">>, <<"+", "PLUS">>, <<";", "SEMICOLON">>,
      <<"*", "STAR">> }

\* the arms that look for a following "="
WithEqual ==
    { <<"!", "BANG", "BANG_EQUAL">>, <<"=", "EQUAL", "EQUAL_EQUAL">>,
      <<"<", "LESS", "LESS_EQUAL">>, <<">", "GREATER", "GREATER_EQUAL">> }

\* Option::None of get_token_type
None == "None"

\* get_token_type: the token kind to emit, or None, and the scanner after it
get_token_type(s, character) ==
    IF \E p \in SingleChars : p[1] = character
    THEN [tt |-> (CHOOSE p \in SingleChars : p[1] = character)[2], s |-> s]
    ELSE IF \E p \in WithEqual : p[1] = character
    THEN LET p == CHOOSE q \in WithEqual : q[1] = character
             m == match_char(s, "=")
         IN  [tt |-> IF m.matched THEN p[3] ELSE p[2], s |-> m.s]
    ELSE IF character = "/"
    THEN LET m == match_char(s, "/")
             n == match_char(m.s, "*")
         IN  IF m.matched THEN [tt |-> None, s |-> line_comment(m.s)]
             ELSE IF n.matched
             THEN [tt |-> None, s |-> parse_block_comments(n.s)]
             ELSE [tt |-> "SLASH", s |-> n.s]
    ELSE IF character \in {" ", "\r", "\t"} THEN [tt |-> None, s |-> s]
    ELSE IF character = "\n"
    THEN [tt |-> None, s |-> [s EXCEPT !.line = @ + 1]]
    ELSE IF character = "\"" THEN [tt |-> None, s |-> parse_string(s)]
    ELSE IF is_digit(character) THEN [tt |-> None, s |-> parse_number(s)]
    ELSE IF is_alphanumeric(character)
    THEN [tt |-> None, s |-> parse_identifier(s)]
    ELSE [tt |-> None,
          s  |-> Unwind([s EXCEPT !.logger =
                    error(@, "Syntax Error: Unidentified character '"
                             \o nth(s.source, s.current - 1)
                             \o "' at line " \o ToString(s.line))])]

\* scan: one char, or one lexeme, of the source
scan(s) ==
    LET a == Scanner_advance(s)
        r == get_token_type(a.s, a.c)
        lexeme == Slice(r.s.source, r.s.start, r.s.current)
    IN  IF a.s.status = "panicked" THEN a.s
        ELSE IF r.s.status = "panicked" \/ r.tt = None THEN r.s
        ELSE IF ~lexeme.ok THEN Unwind(r.s)
        ELSE [r.s EXCEPT !.tokens =
                 Append(@, Token(r.tt, Join(lexeme.v), r.s.line, Nil))]

(***************************************************************************)
(* The sources the scanner is run on.                                      *)
(***************************************************************************)
\* longest source of the exhaustive ASCII family
MaxSrcLen == 3
\* longest body of a block comment
MaxBody == 2
\* longest identifier run that is not a keyword
MaxRun == 2

RECURSIVE Texts(_, _)
\* every char sequence over A of length at most n
Texts(A, n) ==
    IF n = 0 THEN {<<>>}
    ELSE LET T == Texts(A, n - 1) IN
         T \cup {Append(t, c) : t \in {u \in T : Len(u) = n - 1}, c \in A}

\* a char of every kind the scanner tells apart
Alphabet == {"/", "*", "\"", "\n", "1", ".", "a", "=", "@"}

AsciiSources == Texts(Alphabet, MaxSrcLen)

\* comment bodies that do not themselves hold the closing "*/"
Bodies ==
    {b \in Texts({"a", "*", "/", "\n"}, MaxBody) :
        \A i \in 1..(Len(b) - 1) : ~(b[i] = "*" /\ b[i + 1] = "/")}

Tails == {<<>>, <<";">>}

\* a closed block comment and what follows it
CommentSrc(body, tail) == <<"/", "*">> \o body \o <<"*", "/">> \o tail

CommentSources == {CommentSrc(body, tail) : body \in Bodies, tail \in Tails}

\* runs of letters, digits and underscores that start with no digit
Runs ==
    {r \in Texts({"a", "B", "_", "1"}, MaxRun) : r # <<>> /\ r[1] # "1"}

KeywordRuns ==
    { <<"a", "n", "d">>, <<"c", "l", "a", "s", "s">>,
      <<"e", "l", "s", "e">>, <<"f", "a", "l", "s", "e">>,
      <<"f", "o", "r">>, <<"f", "u", "n">>, <<"i", "f">>, <<"n", "i", "l">>,
      <<"o", "r">>, <<"p", "r", "i", "n", "t">>,
      <<"r", "e", "t", "u", "r", "n">>, <<"s", "u", "p", "e", "r">>,
      <<"t", "h", "i", "s">>, <<"t", "r", "u", "e">>, <<"v", "a", "r">>,
      <<"w", "h", "i", "l", "e">> }

IdentSources == Runs \cup KeywordRuns

Affixes == {<<>>, <<"a">>}

\* a string literal with a two-byte char in it
UnicodeString(pre, post) == <<"\"">> \o pre \o <<EAcute>> \o post \o <<"\"">>

\* a line comment with a two-byte char in it, and a statement end after it
UnicodeComment(pre, post) ==
    <<"/", "/">> \o pre \o <<EAcute>> \o post \o <<"\n", ";">>

UnicodeSources ==
    {UnicodeString(pre, post) : pre \in Affixes, post \in Affixes}
    \cup {UnicodeComment(pre, post) : pre \in Affixes, post \in Affixes}

ScanSources ==
    AsciiSources \cup CommentSources \cup IdentSources \cup UnicodeSources

(***************************************************************************)
(* scanner.rs: scan_tokens.  A specification of one stage of main() holds  *)
(* the other stages Idle.                                                  *)
(***************************************************************************)
Idle == [status |-> "idle"]

\* Scanner::new(source, logger) and the call scan_tokens() of main
ScanInit ==
    /\ scanner \in {Scanner_new(source, <<>>) : source \in ScanSources}
    /\ parser = Idle
    /\ prog = <<>>
    /\ env = <<>>
    /\ out = <<>>
    /\ log = <<>>
    /\ status = "idle"
    /\ ctl = <<>>

\* one round of the loop of scan_tokens
scan_tokens_loop ==
    /\ scanner.status = "running"
    /\ ~Scanner_is_at_end(scanner)
    /\ scanner' = scan([scanner EXCEPT !.start = scanner.current])
    /\ UNCHANGED <<parser, prog, env, out, log, status, ctl>>

\* the end of scan_tokens: the EOF token is pushed
scan_tokens_return ==
    /\ scanner.status = "running"
    /\ Scanner_is_at_end(scanner)
    /\ scanner' = [scanner EXCEPT
                      !.tokens = Append(@, Token("EOF", "", scanner.line, Nil)),
                      !.status = "done"]
    /\ UNCHANGED <<parser, prog, env, out, log, status, ctl>>

ScanNext ==
    \/ scan_tokens_loop
    \/ scan_tokens_return

ScanSpec == ScanInit /\ [][ScanNext]_vars

(***************************************************************************)
(* parser.rs: recursive descent over the token list.  The parser record    *)
(* holds the fields of struct Parser, the local `statements` of parse()    *)
(* and status, the position of parse(): "running" inside its loop, "done"  *)
(* once it returned Ok(statements), "panicked" after a panic!() or an      *)
(* unwrap() of an Err, "exited" after exit(1).  A parsing function yields  *)
(* the tree it built and the parser it leaves behind.  The token lists end *)
(* with the EOF token scan_tokens pushes, which keeps tokens[current] and  *)
(* tokens[current - 1] in range.                                           *)
(***************************************************************************)
Parser_new(tokens, logger) ==
    [tokens |-> tokens, current |-> 0, logger |-> logger,
     statements |-> <<>>, status |-> "running"]

Parsed(p, v) == [p |-> p, v |-> v]

\* `let x = v;` followed by Rest(x): v is computed once
Bind(v, Rest(_)) == CHOOSE r \in {Rest(x) : x \in {v}} : TRUE

\* the value of a call that did not return
NoTree == [t |-> "NoTree"]

\* logger.error(message); exit(1)
Exit(p, message) ==
    [p EXCEPT !.logger = error(@, message), !.status = "exited"]

Parser_peek(p) == p.tokens[p.current + 1]

previous(p) == p.tokens[p.current]

Parser_is_at_end(p) == Parser_peek(p).type = "EOF"

\* advance: the parser moved past the current token, unless that is EOF
Parser_advance(p) ==
    IF ~Parser_is_at_end(p) THEN [p EXCEPT !.current = @ + 1] ELSE p

check(p, token_type) ==
    IF Parser_is_at_end(p) THEN FALSE
    ELSE Parser_peek(p).type = token_type

matches(p, token_types) ==
    IF \E t \in token_types : check(p, t)
    THEN [matched |-> TRUE, p |-> Parser_advance(p)]
    ELSE [matched |-> FALSE, p |-> p]

report_error(token, message) ==
    IF token.type = "EOF"
    THEN "Parse error at line " \o ToString(token.line) \o " at end, "
         \o message
    ELSE "Parse error at line " \o ToString(token.line) \o " at '"
         \o token.lexeme \o "', " \o message

\* consume: Ok(token) with the parser moved on, or Err(message)
consume(p, token_type, message) ==
    IF check(p, token_type)
    THEN [ok |-> TRUE, p |-> Parser_advance(p), err |-> ""]
    ELSE [ok |-> FALSE, p |-> p,
          err |-> report_error(Parser_peek(p), message)]

RECURSIVE expression(_), assignment(_), or(_), or_rest(_, _), and(_)
RECURSIVE and_rest(_, _), equality(_), equality_rest(_, _), comparison(_)
RECURSIVE comparison_rest(_, _), term(_), term_rest(_, _), factor(_)
RECURSIVE factor_rest(_, _), unary(_), primary(_)
RECURSIVE declaration(_), var_decl(_), statement(_), if_statement(_)
RECURSIVE block_statement(_), block_rest(_, _), while_statement(_)
RECURSIVE print_statement(_), expr_statement(_)

primary(p) ==
    IF p.status # "running" THEN Parsed(p, NoTree)
    ELSE IF matches(p, {"FALSE"}).matched
    THEN Parsed(matches(p, {"FALSE"}).p, Literal(Bool(FALSE)))
    ELSE IF matches(p, {"TRUE"}).matched
    THEN Parsed(matches(p, {"TRUE"}).p, Literal(Bool(TRUE)))
    ELSE IF matches(p, {"NIL"}).matched
    THEN Parsed(matches(p, {"NIL"}).p, Literal(Nil))
    ELSE IF matches(p, {"NUMBER", "STRING"}).matched
    THEN Bind(matches(p, {"NUMBER", "STRING"}), LAMBDA m :
         Parsed(m.p, Literal(previous(m.p).literal)))
    ELSE IF matches(p, {"LEFT_PAREN"}).matched
    THEN Bind(expression(matches(p, {"LEFT_PAREN"}).p), LAMBDA expr :
         Bind(consume(expr.p, "RIGHT_PAREN",
                      "Expected ')' after expression."), LAMBDA close :
         IF expr.p.status # "running" THEN expr
         ELSE IF close.ok THEN Parsed(close.p, Grouping(expr.v))
         ELSE Parsed(Exit(expr.p, close.err), NoTree)))
    ELSE IF matches(p, {"IDENTIFIER"}).matched
    THEN Bind(matches(p, {"IDENTIFIER"}), LAMBDA m :
         Parsed(m.p, Var(previous(m.p).lexeme)))
    ELSE Parsed(Exit(p, report_error(Parser_peek(p), "Expected expression.")),
                NoTree)

unary(p) ==
    IF p.status # "running" THEN Parsed(p, NoTree)
    ELSE Bind(matches(p, {"BANG", "MINUS"}), LAMBDA m :
         IF m.matched
         THEN Bind(previous(m.p), LAMBDA op :
              Bind(unary(m.p), LAMBDA right :
              Parsed(right.p, Unary(op.type, right.v))))
         ELSE primary(p))

factor_rest(p, expr) ==
    IF p.status # "running" THEN Parsed(p, expr)
    ELSE Bind(matches(p, {"STAR", "SLASH"}), LAMBDA m :
         IF m.matched
         THEN Bind(previous(m.p), LAMBDA op :
              Bind(unary(m.p), LAMBDA right :
              factor_rest(right.p, Binary(expr, op.type, right.v))))
         ELSE Parsed(p, expr))

factor(p) == Bind(unary(p), LAMBDA expr : factor_rest(expr.p, expr.v))

\* a term whose operands are unary expressions, not factors
term_flat(p) == Bind(unary(p), LAMBDA expr : term_rest(expr.p, expr.v))

term_rest(p, expr) ==
    IF p.status # "running" THEN Parsed(p, expr)
    ELSE Bind(matches(p, {"MINUS", "PLUS"}), LAMBDA m :
         IF m.matched
         THEN Bind(previous(m.p), LAMBDA op :
              Bind(factor(m.p), LAMBDA right :
              term_rest(right.p, Binary(expr, op.type, right.v))))
         ELSE Parsed(p, expr))

term(p) == Bind(factor(p), LAMBDA expr : term_rest(expr.p, expr.v))

comparison_rest(p, expr) ==
    IF p.status # "running" THEN Parsed(p, expr)
    ELSE Bind(matches(p, {"GREATER", "GREATER_EQUAL", "LESS", "LESS_EQUAL"}),
              LAMBDA m :
         IF m.matched
         THEN Bind(previous(m.p), LAMBDA op :
              Bind(term(m.p), LAMBDA right :
              comparison_rest(right.p, Binary(expr, op.type, right.v))))
         ELSE Parsed(p, expr))

comparison(p) ==
    Bind(term(p), LAMBDA expr : comparison_rest(expr.p, expr.v))

equality_rest(p, expr) ==
    IF p.status # "running" THEN Parsed(p, expr)
    ELSE Bind(matches(p, {"BANG_EQUAL", "EQUAL_EQUAL"}), LAMBDA m :
         IF m.matched
         THEN Bind(previous(m.p), LAMBDA op :
              Bind(comparison(m.p), LAMBDA right :
              equality_rest(right.p, Binary(expr, op.type, right.v))))
         ELSE Parsed(p, expr))

equality(p) ==
    Bind(comparison(p), LAMBDA expr : equality_rest(expr.p, expr.v))

and_rest(p, expr) ==
    IF p.status # "running" THEN Parsed(p, expr)
    ELSE Bind(matches(p, {"AND"}), LAMBDA m :
         IF m.matched
         THEN Bind(previous(m.p), LAMBDA op :
              Bind(equality(m.p), LAMBDA right :
              and_rest(right.p, Logical(expr, op.type, right.v))))
         ELSE Parsed(p, expr))

and(p) == Bind(equality(p), LAMBDA expr : and_rest(expr.p, expr.v))

or_rest(p, expr) ==
    IF p.status # "running" THEN Parsed(p, expr)
    ELSE Bind(matches(p, {"OR"}), LAMBDA m :
         IF m.matched
         THEN Bind(previous(m.p), LAMBDA op :
              Bind(and(m.p), LAMBDA right :
              or_rest(right.p, Logical(expr, op.type, right.v))))
         ELSE Parsed(p, expr))

or(p) == Bind(and(p), LAMBDA expr : or_rest(expr.p, expr.v))

\* an assignment whose value is a logical-or expression, not an assignment
assignment_flat(p) ==
    Bind(or(p), LAMBDA expr :
    IF expr.p.status # "running" THEN expr
    ELSE Bind(matches(expr.p, {"EQUAL"}), LAMBDA m :
         IF ~m.matched THEN expr
         ELSE Bind(or(m.p), LAMBDA value :
              IF value.p.status # "running" THEN value
              ELSE IF expr.v.t = "VarExpr"
              THEN Parsed(value.p, Assign(expr.v.name, value.v))
              ELSE Parsed(Unwind(value.p), NoTree))))

assignment(p) ==
    Bind(or(p), LAMBDA expr :
    IF expr.p.status # "running" THEN expr
    ELSE Bind(matches(expr.p, {"EQUAL"}), LAMBDA m :
         IF ~m.matched THEN expr
         ELSE Bind(assignment(m.p), LAMBDA value :
              IF value.p.status # "running" THEN value
              ELSE IF expr.v.t = "VarExpr"
              THEN Parsed(value.p, Assign(expr.v.name, value.v))
              ELSE Parsed(Unwind(value.p), NoTree))))

expression(p) == assignment(p)

expr_statement(p) ==
    Bind(expression(p), LAMBDA expr :
    IF expr.p.status # "running" THEN expr
    ELSE Bind(consume(expr.p, "SEMICOLON",
                      "Expected ';' after the expression."), LAMBDA semi :
         IF semi.ok THEN Parsed(semi.p, ExpressionStmt(expr.v))
         ELSE Parsed(Unwind(semi.p), NoTree)))

print_statement(p) ==
    Bind(expression(p), LAMBDA value :
    IF value.p.status # "running" THEN value
    ELSE Bind(consume(value.p, "SEMICOLON",
                      "Expected ';' after the print statement."),
              LAMBDA semi :
         IF semi.ok THEN Parsed(semi.p, PrintStmt(value.v))
         ELSE Parsed(Unwind(semi.p), NoTree)))

while_statement(p) ==
    Bind(consume(p, "LEFT_PAREN",
                 "Expected a '(' after the while keyword."), LAMBDA open :
    IF ~open.ok THEN Parsed(Unwind(open.p), NoTree)
    ELSE Bind(expression(open.p), LAMBDA cond :
    IF cond.p.status # "running" THEN cond
    ELSE Bind(consume(cond.p, "RIGHT_PAREN",
                      "Expected a ')' after the condition."), LAMBDA close :
    IF ~close.ok THEN Parsed(Unwind(close.p), NoTree)
    ELSE Bind(statement(close.p), LAMBDA block :
         Parsed(block.p, WhileStmt(cond.v, block.v))))))

\* the loop of block_statement
block_rest(p, statements) ==
    IF p.status # "running" THEN Parsed(p, statements)
    ELSE IF ~check(p, "RIGHT_BRACE") /\ ~Parser_is_at_end(p)
    THEN Bind(declaration(p), LAMBDA stmt :
         block_rest(stmt.p, Append(statements, stmt.v)))
    ELSE Parsed(p, statements)

block_statement(p) ==
    Bind(block_rest(p, <<>>), LAMBDA statements :
    IF statements.p.status # "running" THEN statements
    ELSE Bind(consume(statements.p, "RIGHT_BRACE",
                      "Expected '}' after the block."), LAMBDA close :
         IF close.ok THEN Parsed(close.p, BlockStmt(statements.v))
         ELSE Parsed(Unwind(close.p), NoTree)))

if_statement(p) ==
    Bind(consume(p, "LEFT_PAREN",
                 "Expected a '(' after the if statement."), LAMBDA open :
    IF ~open.ok THEN Parsed(Unwind(open.p), NoTree)
    ELSE Bind(expression(open.p), LAMBDA condition :
    IF condition.p.status # "running" THEN condition
    ELSE Bind(consume(condition.p, "RIGHT_PAREN",
                      "Expected a ')' after the if condition."),
              LAMBDA close :
    IF ~close.ok THEN Parsed(Unwind(close.p), NoTree)
    ELSE Bind(statement(close.p), LAMBDA then_branch :
    IF then_branch.p.status # "running" THEN then_branch
    ELSE Bind(matches(then_branch.p, {"ELSE"}), LAMBDA else :
    IF else.matched
    THEN Bind(statement(else.p), LAMBDA else_branch :
         Parsed(else_branch.p,
                IfStmt(condition.v, then_branch.v, <<else_branch.v>>)))
    ELSE Parsed(else.p, IfStmt(condition.v, then_branch.v, <<>>)))))))

statement(p) ==
    IF p.status # "running" THEN Parsed(p, NoTree)
    ELSE IF matches(p, {"PRINT"}).matched
    THEN Bind(matches(p, {"PRINT"}).p, LAMBDA q : print_statement(q))
    ELSE IF matches(p, {"IF"}).matched
    THEN Bind(matches(p, {"IF"}).p, LAMBDA q : if_statement(q))
    ELSE IF matches(p, {"LEFT_BRACE"}).matched
    THEN Bind(matches(p, {"LEFT_BRACE"}).p, LAMBDA q : block_statement(q))
    ELSE IF matches(p, {"WHILE"}).matched
    THEN Bind(matches(p, {"WHILE"}).p, LAMBDA q : while_statement(q))
    ELSE expr_statement(p)

var_decl(p) ==
    Bind(consume(p, "IDENTIFIER", "Expected a variable name"), LAMBDA ident :
    IF ~ident.ok THEN Parsed(Unwind(ident.p), NoTree)
    ELSE Bind(matches(ident.p, {"EQUAL"}), LAMBDA equal :
    Bind(IF equal.matched THEN expression(equal.p)
         ELSE Parsed(equal.p, Literal(Nil)), LAMBDA initializer :
    IF initializer.p.status # "running" THEN initializer
    ELSE Bind(consume(initializer.p, "SEMICOLON",
                      "Expected a ';' after variable declaration"),
              LAMBDA semi :
    IF ~semi.ok THEN Parsed(Unwind(semi.p), NoTree)
    ELSE Parsed(semi.p,
                VarStmt(previous(ident.p).lexeme, <<initializer.v>>))))))

declaration(p) ==
    IF p.status # "running" THEN Parsed(p, NoTree)
    ELSE IF matches(p, {"VAR"}).matched
    THEN Bind(matches(p, {"VAR"}).p, LAMBDA q : var_decl(q))
    ELSE statement(p)

(***************************************************************************)
(* The token lists the parser is run on, all on line 1 and all ending with *)
(* the EOF token, as scan_tokens leaves them.                              *)
(***************************************************************************)
\* most tokens before EOF in the exhaustive family
MaxTokens == 3
\* most statements of a well-formed program
MaxStmts == 2

\* the lexeme scan() slices for a punctuation token
PunctLexeme(type) ==
    IF \E q \in SingleChars : q[2] = type
    THEN (CHOOSE q \in SingleChars : q[2] = type)[1]
    ELSE IF \E q \in WithEqual : q[2] = type
    THEN (CHOOSE q \in WithEqual : q[2] = type)[1]
    ELSE IF \E q \in WithEqual : q[3] = type
    THEN (CHOOSE q \in WithEqual : q[3] = type)[1] \o "="
    ELSE "/"

Punct(type) == Token(type, PunctLexeme(type), 1, Nil)

Keyword(type) ==
    Token(type, (CHOOSE k \in get_keywords : k[2] = type)[1], 1, Nil)

Ident(name) == Token("IDENTIFIER", name, 1, Nil)

NumberTok(n) == Token("NUMBER", "", 1, Num(n))

EndOfFile == Token("EOF", "", 1, Nil)

\* a token of every kind the statement grammar tells apart
TokenAlphabet ==
    {Keyword("VAR"), Keyword("PRINT"), Ident("x"), NumberTok(1),
     Punct("EQUAL"), Punct("SEMICOLON"), Punct("LEFT_BRACE"),
     Punct("RIGHT_BRACE"), Punct("LEFT_PAREN"), Punct("RIGHT_PAREN")}

AnyTokens == {t \o <<EndOfFile>> : t \in Texts(TokenAlphabet, MaxTokens)}

\* one statement of every kind: its tokens and the tree they stand for
Forms ==
    { <<<<Keyword("PRINT"), NumberTok(1), Punct("SEMICOLON")>>,
        PrintStmt(Literal(Num(1)))>>,
      <<<<Keyword("VAR"), Ident("x"), Punct("SEMICOLON")>>,
        VarStmt("x", <<Literal(Nil)>>)>>,
      <<<<Ident("x"), Punct("EQUAL"), NumberTok(2), Punct("SEMICOLON")>>,
        ExpressionStmt(Assign("x", Literal(Num(2))))>>,
      <<<<Punct("LEFT_BRACE"), Keyword("VAR"), Ident("y"), Punct("EQUAL"),
          NumberTok(1), Punct("SEMICOLON"), Punct("RIGHT_BRACE")>>,
        BlockStmt(<<VarStmt("y", <<Literal(Num(1))>>)>>)>>,
      <<<<Keyword("IF"), Punct("LEFT_PAREN"), Ident("x"),
          Punct("RIGHT_PAREN"), Keyword("PRINT"), NumberTok(1),
          Punct("SEMICOLON"), Keyword("ELSE"), Keyword("PRINT"),
          NumberTok(2), Punct("SEMICOLON")>>,
        IfStmt(Var("x"), PrintStmt(Literal(Num(1))),
               <<PrintStmt(Literal(Num(2)))>>)>>,
      <<<<Keyword("WHILE"), Punct("LEFT_PAREN"), Ident("x"),
          Punct("RIGHT_PAREN"), Punct("LEFT_BRACE"), Punct("RIGHT_BRACE")>>,
        WhileStmt(Var("x"), BlockStmt(<<>>))>> }

\* the well-formed programs: every sequence of at most MaxStmts forms
FormLists == Texts(Forms, MaxStmts)

RECURSIVE TokensOf(_)
TokensOf(forms) ==
    IF forms = <<>> THEN <<EndOfFile>>
    ELSE Head(forms)[1] \o TokensOf(Tail(forms))

TreesOf(forms) == [i \in 1..Len(forms) |-> forms[i][2]]

InfixOps ==
    {"OR", "AND", "BANG_EQUAL", "EQUAL_EQUAL", "GREATER", "GREATER_EQUAL",
     "LESS", "LESS_EQUAL", "MINUS", "PLUS", "STAR", "SLASH"}

PrefixOps == {"BANG", "MINUS"}

OpToken(op) == IF op \in {"OR", "AND"} THEN Keyword(op) ELSE Punct(op)

\* x op1 1 op2 y ;
InfixTokens(op1, op2) ==
    <<Ident("x"), OpToken(op1), NumberTok(1), OpToken(op2), Ident("y"),
      Punct("SEMICOLON"), EndOfFile>>

\* u x op 1 ;
PrefixTokens(u, op) ==
    <<OpToken(u), Ident("x"), OpToken(op), NumberTok(1), Punct("SEMICOLON"),
      EndOfFile>>

\* x = y = 1 ;
ChainTokens ==
    <<Ident("x"), Punct("EQUAL"), Ident("y"), Punct("EQUAL"), NumberTok(1),
      Punct("SEMICOLON"), EndOfFile>>

\* expressions that are no bare variable reference: a literal, a grouping,
\* two unary, a binary and two logical expressions
Targets ==
    { <<NumberTok(1)>>,
      <<Punct("LEFT_PAREN"), Ident("x"), Punct("RIGHT_PAREN")>>,
      <<Punct("MINUS"), Ident("x")>>,
      <<Punct("BANG"), Ident("x")>>,
      <<Ident("x"), Punct("PLUS"), Ident("y")>>,
      <<Ident("x"), Keyword("OR"), Ident("y")>>,
      <<Ident("x"), Keyword("AND"), Ident("y")>> }

\* target = 2 ;  or, nested,  x = target = 2 ;
TargetTokens(target, nested) ==
    (IF nested THEN <<Ident("x"), Punct("EQUAL")>> ELSE <<>>)
    \o target
    \o <<Punct("EQUAL"), NumberTok(2), Punct("SEMICOLON"), EndOfFile>>

ExpressionLists ==
    {InfixTokens(op1, op2) : op1 \in InfixOps, op2 \in InfixOps}
    \cup {PrefixTokens(u, op) : u \in PrefixOps, op \in InfixOps}
    \cup {ChainTokens}
    \cup {TargetTokens(target, nested) : target \in Targets,
                                         nested \in BOOLEAN}

TokenLists ==
    AnyTokens \cup {TokensOf(forms) : forms \in FormLists}
    \cup ExpressionLists

(***************************************************************************)
(* parser.rs: parse.                                                       *)
(***************************************************************************)
\* Parser::new(tokens, logger) and the call parse() of main
ParseInit ==
    /\ parser \in {Parser_new(tokens, <<>>) : tokens \in TokenLists}
    /\ scanner = Idle
    /\ prog = <<>>
    /\ env = <<>>
    /\ out = <<>>
    /\ log = <<>>
    /\ status = "idle"
    /\ ctl = <<>>

\* a parse loop that puts each new statement in front of the others
parse_loop_prepend ==
    /\ parser.status = "running"
    /\ ~Parser_is_at_end(parser)
    /\ \E stmt \in {declaration(parser)} :
          parser' = IF stmt.p.status # "running" THEN stmt.p
                    ELSE [stmt.p EXCEPT !.statements = <<stmt.v>> \o @]
    /\ UNCHANGED <<scanner, prog, env, out, log, status, ctl>>

\* one round of the loop of parse: a declaration, pushed on `statements`
parse_loop ==
    /\ parser.status = "running"
    /\ ~Parser_is_at_end(parser)
    /\ \E stmt \in {declaration(parser)} :
          parser' = IF stmt.p.status # "running" THEN stmt.p
                    ELSE [stmt.p EXCEPT !.statements = Append(@, stmt.v)]
    /\ UNCHANGED <<scanner, prog, env, out, log, status, ctl>>

\* the end of parse: Ok(statements)
parse_return ==
    /\ parser.status = "running"
    /\ Parser_is_at_end(parser)
    /\ parser' = [parser EXCEPT !.status = "done"]
    /\ UNCHANGED <<scanner, prog, env, out, log, status, ctl>>

ParseNext ==
    \/ parse_loop
    \/ parse_return

ParseSpec == ParseInit /\ [][ParseNext]_vars

(***************************************************************************)
(* The programs the interpreter is run on.  Each family is a program text  *)
(* with holes; main.rs hands interpret() the parsed statement list.        *)
(***************************************************************************)
Lit(n) == Literal(Num(n))

Text(s) == Literal(String(s))

\* one value of every Literal variant, both sides of every truthiness test
TestValues ==
    {Bool(TRUE), Bool(FALSE), Num(0), Num(1), Num(2), String(""), String("a"), Nil}

\* var x = v;   x = v;   print x;
Declare(name, n) == VarStmt(name, <<Lit(n)>>)

Store(name, n) == ExpressionStmt(Assign(name, Lit(n)))

Show(name) == PrintStmt(Var(name))

\* Scope programs: nested blocks, one per entry of d after the first.
\* Scope i (1 = global) first runs `var x = i;` when d[i], then the next
\* block (the innermost scope runs `inner` instead), then `print x;`.
Inners ==
    {<<>>, <<Store("x", 9)>>, <<Declare("x", 9)>>,
     <<Store("x", 9), Declare("x", 8)>>}

Shapes == UNION {[1..l -> BOOLEAN] : l \in 1..(MaxDepth + 1)}

RECURSIVE Scope(_, _, _)
Scope(d, i, inner) ==
    (IF d[i] THEN <<Declare("x", i)>> ELSE <<>>)
    \o (IF i = Len(d) THEN inner ELSE <<BlockStmt(Scope(d, i + 1, inner))>>)
    \o <<Show("x")>>

ScopeProg(d, inner) == Scope(d, 1, inner)

ScopePrograms == {ScopeProg(d, inner) : d \in Shapes, inner \in Inners}

\* var x = 0; while (x < n) { print x; x = x + 1; }
WhileProg(n) ==
    <<Declare("x", 0),
      WhileStmt(Binary(Var("x"), "LESS", Lit(n)),
                BlockStmt(<<Show("x"),
                            ExpressionStmt(Assign("x",
                                Binary(Var("x"), "PLUS", Lit(1))))>>))>>

WhilePrograms == {WhileProg(n) : n \in 0..MaxN}

\* if (v) print "then"; [else print "else";]
Elses == {<<>>, <<PrintStmt(Text("else"))>>}

IfProg(v, els) == <<IfStmt(Literal(v), PrintStmt(Text("then")), els)>>

IfPrograms == {IfProg(v, els) : v \in TestValues, els \in Elses}

\* print !v;   print -v;
UnaryOps == {"BANG", "MINUS"}

UnaryProg(op, v) == <<PrintStmt(Unary(op, Literal(v)))>>

UnaryPrograms == {UnaryProg(op, v) : op \in UnaryOps, v \in TestValues}

\* var y = 1; print l op r; print y;
\* with operands that have a value, a side effect on y, or a fatal error
LogicalOps == {"OR", "AND"}

Lefts == {Literal(v) : v \in TestValues} \cup {Grouping(Assign("y", Lit(5)))}

Rights ==
    {Lit(7), Var("y"), Grouping(Assign("y", Lit(2))),
     Grouping(Binary(Lit(1), "SLASH", Lit(0)))}

LogicalProg(l, op, r) ==
    <<Declare("y", 1), PrintStmt(Logical(l, op, r)), Show("y")>>

LogicalPrograms ==
    {LogicalProg(l, op, r) : l \in Lefts, op \in LogicalOps, r \in Rights}

\* print a op b; print "after";   for every binary operator the parser emits
BinaryOps ==
    {"MINUS", "PLUS", "STAR", "SLASH", "LESS", "LESS_EQUAL", "GREATER",
     "GREATER_EQUAL", "EQUAL_EQUAL", "BANG_EQUAL"}

BinaryProg(a, op, b) ==
    <<PrintStmt(Binary(Literal(a), op, Literal(b))), PrintStmt(Text("after"))>>

BinaryPrograms ==
    {BinaryProg(a, op, b) : a \in TestValues, op \in BinaryOps, b \in TestValues}

\* var x = a; var y = b; print x op y; print "after";
VarBinaryProg(a, op, b) ==
    <<Declare("x", a), Declare("y", b),
      PrintStmt(Binary(Var("x"), op, Var("y"))), PrintStmt(Text("after"))>>

VarBinaryPrograms ==
    {VarBinaryProg(a, op, b) : a \in 0..2, op \in BinaryOps, b \in 0..2}

\* while (v) { } print "after";
LoopProg(v) ==
    <<WhileStmt(Literal(v), BlockStmt(<<>>)), PrintStmt(Text("after"))>>

LoopPrograms == {LoopProg(v) : v \in TestValues}

\* var x = 1; var y = 1; x = y = v; print x; print y;
ChainAssignProg(v) ==
    <<Declare("x", 1), Declare("y", 1),
      ExpressionStmt(Assign("x", Assign("y", Literal(v)))),
      Show("x"), Show("y")>>

\* var x = 1; print x = v; print x;
PrintAssignProg(v) ==
    <<Declare("x", 1), PrintStmt(Assign("x", Literal(v))), Show("x")>>

AssignPrograms ==
    {ChainAssignProg(v) : v \in TestValues}
    \cup {PrintAssignProg(v) : v \in TestValues}

Programs ==
    ScopePrograms \cup WhilePrograms \cup IfPrograms \cup UnaryPrograms
    \cup LogicalPrograms \cup BinaryPrograms \cup VarBinaryPrograms
    \cup LoopPrograms \cup AssignPrograms

(***************************************************************************)
(* interpreter.rs: statement execution.                                     *)
(***************************************************************************)
\* the point of exec_block after its statement loop
BlockEnd == [t |-> "BlockEnd"]

\* Interpreter::new and the call interpret(prog) of main
Init ==
    /\ prog \in Programs
    /\ env = env_new(<<>>)
    /\ out = <<>>
    /\ log = <<>>
    /\ status = "running"
    /\ ctl = prog
    /\ scanner = Idle
    /\ parser = Idle

\* execute() is about to run a statement of kind t
At(t) == status = "running" /\ ctl # <<>> /\ Head(ctl).t = t

\* a panic inside an evaluation: the process unwinds, nothing runs after it
Abort(r) ==
    /\ status' = "panicked"
    /\ env' = r.env
    /\ log' = r.log
    /\ UNCHANGED <<scanner, parser, prog, out, ctl>>

\* an evaluation returned: keep its effects and go on with `rest`
Continue(r, rest) ==
    /\ env' = r.env
    /\ log' = r.log
    /\ ctl' = rest
    /\ UNCHANGED <<scanner, parser, prog, status>>

\* Stmt::Expression
execute_expression ==
    /\ At("Expression")
    /\ LET r == eval_expr(Head(ctl).e, env, log) IN
       IF r.ok THEN Continue(r, Tail(ctl)) /\ out' = out ELSE Abort(r)

\* Stmt::Print
execute_print ==
    /\ At("Print")
    /\ LET r == eval_expr(Head(ctl).e, env, log) IN
       IF r.ok THEN Continue(r, Tail(ctl)) /\ out' = Append(out, fmt(r.v))
       ELSE Abort(r)

\* Stmt::Var
execute_var ==
    /\ At("Var")
    /\ LET s == Head(ctl)
           init == IF s.init # <<>> THEN eval_expr(s.init[1], env, log)
                   ELSE Ok(Nil, env, log)
       IN  IF init.ok
           THEN /\ env' = eval_var_expr(s.name, init.v, init.env)
                /\ log' = init.log
                /\ ctl' = Tail(ctl)
                /\ UNCHANGED <<scanner, parser, prog, status, out>>
           ELSE Abort(init)

\* exec_block, entry: the new scope encloses a clone of the current chain
exec_block ==
    /\ At("Block")
    /\ env' = env_new(env)
    /\ ctl' = Head(ctl).body \o <<BlockEnd>> \o Tail(ctl)
    /\ UNCHANGED <<scanner, parser, prog, out, log, status>>

\* a block exit that forgets to restore the enclosing chain
exec_block_end_keep ==
    /\ At("BlockEnd")
    /\ ctl' = Tail(ctl)
    /\ UNCHANGED <<scanner, parser, prog, env, out, log, status>>

\* exec_block, exit: the enclosing clone becomes the current chain
exec_block_end ==
    /\ At("BlockEnd")
    /\ env' = get_enclosing(env)
    /\ ctl' = Tail(ctl)
    /\ UNCHANGED <<scanner, parser, prog, out, log, status>>

eval_if ==
    /\ At("If")
    /\ LET s == Head(ctl)
           cond_val == eval_expr(s.c, env, log)
       IN  IF ~cond_val.ok THEN Abort(cond_val)
           ELSE /\ out' = out
                /\ IF is_truthy(cond_val.v)
                   THEN Continue(cond_val, <<s.th>> \o Tail(ctl))
                   ELSE Continue(cond_val, s.els \o Tail(ctl))

\* one round of exec_while: test the condition, run the body, come back
exec_while ==
    /\ At("While")
    /\ LET s == Head(ctl)
           cond_val == eval_expr(s.c, env, log)
       IN  IF ~cond_val.ok THEN Abort(cond_val)
           ELSE /\ out' = out
                /\ IF is_truthy(cond_val.v)
                   THEN Continue(cond_val, <<s.body, s>> \o Tail(ctl))
                   ELSE Continue(cond_val, Tail(ctl))

\* interpret() returns after the last statement
interpret_return ==
    /\ status = "running"
    /\ ctl = <<>>
    /\ status' = "done"
    /\ UNCHANGED <<scanner, parser, prog, env, out, log, ctl>>

Next ==
    \/ execute_expression
    \/ execute_print
    \/ execute_var
    \/ exec_block
    \/ exec_block_end
    \/ eval_if
    \/ exec_while
    \/ interpret_return

Spec == Init /\ [][Next]_vars

\* the interpreter is a sequential program: it keeps running until it
\* returns or panics
FairSpec == Spec /\ WF_vars(Next)

(***************************************************************************)
(* Properties.                                                             *)
(***************************************************************************)
\* the scopes of chain e that bind name
Holders(e, name) == {j \in 1..Len(e) : e[j][name] # Absent}

Innermost(S) == CHOOSE m \in S : \A k \in S : k <= m

\* execute() is about to run the statement `name = <literal>;`
AtStore ==
    /\ At("Expression")
    /\ Head(ctl).e.t = "Assign"
    /\ Head(ctl).e.e.t = "Literal"

\* C1: an assignment `name = v` run in a scope that does not bind name,
\* while an enclosing scope at any distance does, overwrites the binding of
\* the nearest enclosing scope that holds name and touches no other scope.
C1_AssignWalksChain ==
    [][(/\ AtStore
        /\ env[Len(env)][Head(ctl).e.name] = Absent
        /\ Holders(env, Head(ctl).e.name) # {})
       => env' = [env EXCEPT ![Innermost(Holders(env, Head(ctl).e.name))]
                                [Head(ctl).e.name] = Head(ctl).e.e.v]]_vars

\* C2: an assignment to a name bound nowhere in the chain is a fatal error
\* at every nesting depth, and no scope gains a binding for the name.
C2_AssignUndefinedFails ==
    [][(AtStore /\ Holders(env, Head(ctl).e.name) = {})
       => (status' = "panicked" /\ env' = env)]_vars

Terminated == status \in {"done", "panicked"}

\* the truthiness table as the specification states it
ClaimedTruthy(v) ==
    CASE v.t = "Bool"   -> v.b
      [] v.t = "Number" -> v.n = 0
      [] v.t = "String" -> v.s # ""
      [] v.t = "Nil"    -> FALSE

\* the same table with the String row turned round
AmendedTruthy(v) ==
    CASE v.t = "Bool"   -> v.b
      [] v.t = "Number" -> v.n = 0
      [] v.t = "String" -> v.s = ""
      [] v.t = "Nil"    -> FALSE

\* `if`, `while`, `or` and `and` all branch on a value v as table T says
BranchesFollow(T(_)) ==
    \A v \in TestValues :
        /\ \A els \in Elses :
              (prog = IfProg(v, els) /\ status = "done")
              => out = IF T(v) THEN <<"then">>
                       ELSE IF els = <<>> THEN <<>> ELSE <<"else">>
        /\ prog = LoopProg(v)
              => /\ Len(env) > 1 => T(v)
                 /\ status = "done" => (~T(v) /\ out = <<"after">>)
        /\ (prog = LogicalProg(Literal(v), "OR", Lit(7)) /\ status = "done")
              => out[1] = IF T(v) THEN fmt(v) ELSE "7"
        /\ (prog = LogicalProg(Literal(v), "AND", Lit(7)) /\ status = "done")
              => out[1] = IF T(v) THEN "7" ELSE fmt(v)

C4_BangNegatesTruthiness ==
    \A v \in TestValues :
        (prog = UnaryProg("BANG", v) /\ Terminated)
        => (status = "done" /\ out = <<fmt(Bool(~is_truthy(v)))>>)

\* the loop bound n of the counting program prog
LoopBound == prog[2].c.r.v.n

\* the lines 0, 1, ..., k-1
Counted(k) == [i \in 1..k |-> ToString(i - 1)]

C5_Safe ==
    prog \in WhilePrograms
    => /\ status # "panicked"
       /\ Len(out) <= LoopBound
       /\ out = Counted(Len(out))
       /\ At("While") => env = <<[x |-> Num(Len(out)), y |-> Absent]>>
       /\ status = "done"
            => /\ out = Counted(LoopBound)
               /\ env = <<[x |-> Num(LoopBound), y |-> Absent]>>

\* C5: for every n >= 0, `var i = 0; while (i < n) { print i; i = i + 1; }`
\* terminates; the condition is tested against the updated global after
\* each round, the body runs exactly n times, the output is 0, 1, ..., n-1
\* in order and the global equals n afterwards.
C5_CountingLoop ==
    /\ []C5_Safe
    /\ (prog \in WhilePrograms) ~> (status = "done")

C5_Witness ==
    /\ prog = WhileProg(MaxN)
    /\ status = "done"
    /\ out = Counted(MaxN)
    /\ env = <<[x |-> Num(MaxN), y |-> Absent]>>

\* var x = 1; { var x = 9; print x; } print x;
ShadowProg == ScopeProg(<<TRUE, FALSE>>, <<Declare("x", 9)>>)

\* C6: a `var` declaration run inside a block binds the name in that
\* block's own scope only: a read in the block then sees the new value and
\* every enclosing scope keeps its bindings; the shadowing program prints
\* the inner value, then the outer one.
C6_VarBindsOwnScope ==
    /\ [][(At("Var") /\ Len(env) > 1 /\ Head(ctl).init # <<>>
           /\ Head(ctl).init[1].t = "Literal")
          => /\ env' = [env EXCEPT ![Len(env)][Head(ctl).name]
                                            = Head(ctl).init[1].v]
             /\ get_enclosing(env') = get_enclosing(env)
             /\ get(env', Head(ctl).name)
                  = [ok |-> TRUE, v |-> Head(ctl).init[1].v]]_vars
    /\ []((prog = ShadowProg /\ Terminated)
           => (status = "done" /\ out = <<"9", "1">>))

C6_Witness ==
    /\ prog = ShadowProg
    /\ status = "done"
    /\ out = <<"9", "1">>

\* x is declared with `var` in scope k or deeper of ScopeProg(d, inner)
DeclaredWithin(d, inner, k) ==
    \/ \E j \in k..Len(d) : d[j]
    \/ \E i \in 1..Len(inner) : inner[i].t = "Var"

\* C7: when a block exits, a name declared with `var` only inside it (or
\* inside blocks nested in it) is unbound again, whatever ran in the block.
C7_BlockLocalsUnbound ==
    [][\A d \in Shapes, inner \in Inners :
          (/\ prog = ScopeProg(d, inner)
           /\ At("BlockEnd")
           /\ \A j \in 1..(Len(env) - 1) : ~d[j]
           /\ DeclaredWithin(d, inner, Len(env)))
          => ~get(env', "x").ok]_vars

\* the operand (1/0) of the logical programs
DivByZero == Grouping(Binary(Lit(1), "SLASH", Lit(0)))

DivZeroLog == <<[message |-> "Cannot divide by zero", line |-> NoLine]>>

\* what the left operand of a logical program evaluates to, and the value
\* it leaves in y
LeftValue(l) == IF l.t = "Literal" THEN l.v ELSE Nil

YAfterLeft(l) == IF l.t = "Literal" THEN 1 ELSE 5

\* the left value decides the result: truthy for `or`, falsy for `and`
Decided(l, op) ==
    IF op = "OR" THEN is_truthy(LeftValue(l)) ELSE ~is_truthy(LeftValue(l))

\* the two lines `print l op r; print y;` must produce when r is evaluated
RightLines(l, r) ==
    CASE r = Lit(7)   -> <<"7", ToString(YAfterLeft(l))>>
      [] r = Var("y") -> <<ToString(YAfterLeft(l)), ToString(YAfterLeft(l))>>
      [] OTHER        -> <<"nil", "2">>

\* C8: `and` / `or` evaluate the left operand first; when it decides the
\* result (truthy for `or`, falsy for `and`) the result is the left value
\* itself and the right operand is not evaluated: none of its side effects
\* or fatal errors occur; otherwise the result is the right operand's value.
C8_ShortCircuit ==
    \A l \in Lefts, op \in LogicalOps, r \in Rights :
        (prog = LogicalProg(l, op, r) /\ Terminated)
        => IF Decided(l, op)
           THEN /\ status = "done"
                /\ out = <<fmt(LeftValue(l)), ToString(YAfterLeft(l))>>
                /\ log = <<>>
           ELSE IF r = DivByZero
           THEN /\ status = "panicked"
                /\ out = <<>>
                /\ log = DivZeroLog
                /\ env = <<[x |-> Absent, y |-> Num(YAfterLeft(l))]>>
           ELSE /\ status = "done"
                /\ out = RightLines(l, r)
                /\ log = <<>>

\* false and (1/0);  prints false, raises nothing
C8_Witness ==
    /\ prog = LogicalProg(Literal(Bool(FALSE)), "AND", DivByZero)
    /\ status = "done"
    /\ out = <<"false", "1">>

\* the programs that divide a Number by zero
DividesByZero ==
    \/ \E a \in 0..2 : prog = BinaryProg(Num(a), "SLASH", Num(0))
    \/ \E a \in 0..2 : prog = VarBinaryProg(a, "SLASH", 0)

\* C9: `l / r` with both operands Numbers and r zero always ends in the
\* fatal 'Cannot divide by zero' error, for every numerator: no value is
\* produced (printed) and no later statement runs.
C9_Safe ==
    DividesByZero
    => /\ out = <<>>
       /\ status # "done"
       /\ ctl # <<>> /\ Head(ctl) # PrintStmt(Text("after"))
       /\ status = "panicked" => log = DivZeroLog

C9_DivideByZeroFatal ==
    /\ []C9_Safe
    /\ DividesByZero ~> (status = "panicked")

C9_Witness ==
    /\ prog = BinaryProg(Num(0), "SLASH", Num(0))
    /\ status = "panicked"
    /\ log = DivZeroLog

\* C10: on every fatal condition exactly one diagnostic is reported through
\* the logger before execution stops, and it carries a line number and a
\* message.
C10_OneDiagnosticWithLine ==
    status = "panicked"
    => /\ Len(log) = 1
       /\ log[1].line # NoLine
       /\ log[1].message # ""

\* the block exits still pending in c: the nesting depth of the statement
\* being executed
PendingExits(c) == Cardinality({i \in 1..Len(c) : c[i].t = "BlockEnd"})

\* the interpreter stands between two top-level statements
AtTopLevel == \E i \in 1..(Len(prog) + 1) : ctl = SubSeq(prog, i, Len(prog))

C17_Depth ==
    /\ Len(env) = 1 + PendingExits(ctl)
    /\ AtTopLevel => Len(env) = 1
    /\ status = "done" => Len(env) = 1

\* C17: scope push/pop: a statement that completes leaves the depth of the
\* scope chain as it found it; while the k-th nested block runs the depth
\* is k + 1; between top-level statements the current environment is the
\* global scope alone.
C17_PushPop ==
    /\ []C17_Depth
    /\ [][(status = "running" /\ ctl # <<>>
           /\ Head(ctl).t \notin {"Block", "BlockEnd"})
          => Len(env') = Len(env)]_vars
    /\ [][At("Block") => Len(env') = Len(env) + 1]_vars
    /\ [][At("BlockEnd") => Len(env') = Len(env) - 1]_vars

C17_Witness ==
    /\ status = "running"
    /\ PendingExits(ctl) = MaxDepth
    /\ Len(env) = MaxDepth + 1

\* the Number operands of the binary programs
TestNumbers == {v \in TestValues : v.t = "Number"}

\* C19: `<=` is the only binary operator the parser emits that has no
\* evaluation case: on Number operands every other operator (with a
\* non-zero divisor for `/`) evaluates to a value.
C19_OnlyLessEqualMissing ==
    \A a \in TestNumbers, b \in TestNumbers, op \in BinaryOps :
        (prog = BinaryProg(a, op, b) /\ Terminated)
        => IF op = "LESS_EQUAL" THEN status = "panicked" /\ log = <<>>
           ELSE IF op = "SLASH" /\ b = Num(0) THEN status = "panicked"
           ELSE status = "done" /\ Len(out) = 2

\* C20: an assignment expression evaluates to Nil, never to the assigned
\* value: after `x = y = v` y holds v and x holds Nil, and `print x = v;`
\* prints nil while x is bound to v.
C20_AssignYieldsNil ==
    \A v \in TestValues :
        /\ (prog = ChainAssignProg(v) /\ Terminated)
             => (status = "done" /\ out = <<"nil", fmt(v)>>)
        /\ (prog = PrintAssignProg(v) /\ Terminated)
             => (status = "done" /\ out = <<"nil", fmt(v)>>)

C20_Witness ==
    /\ prog = ChainAssignProg(Num(2))
    /\ status = "done"
    /\ out = <<"nil", "2">>

(***************************************************************************)
(* Properties of the scanner.                                              *)
(***************************************************************************)
ScanTerminated == scanner.status \in {"done", "panicked"}

IsPrefix(s, t) == Len(s) <= Len(t) /\ s = SubSeq(t, 1, Len(s))

Newlines(chars) == Len(SelectSeq(chars, LAMBDA c : c = "\n"))

EofToken(line) == Token("EOF", "", line, Nil)

\* the tokens of a source that is one closed block comment and a tail
AfterComment(body, tail) ==
    LET line == 1 + Newlines(body) IN
    IF tail = <<>> THEN <<EofToken(line)>>
    ELSE <<Token("SEMICOLON", ";", line, Nil), EofToken(line)>>

\* C11: for a source whose block comment `/*` is closed by a later `*/`,
\* the scanner emits no token for any char from the `/*` through the first
\* following `*/`, whatever the body holds, and scanning resumes right
\* after that `*/`: the tokens are those of what follows the comment.
C11_BlockCommentSkipped ==
    \A body \in Bodies, tail \in Tails :
        scanner.source = CommentSrc(body, tail)
        => /\ IsPrefix(scanner.tokens, AfterComment(body, tail))
           /\ scanner.status # "panicked"
           /\ scanner.status = "done"
                 => scanner.tokens = AfterComment(body, tail)

\* the kind of token a run stands for
RunKind(run) ==
    IF \E k \in get_keywords : k[1] = Join(run)
    THEN (CHOOSE k \in get_keywords : k[1] = Join(run))[2]
    ELSE "IDENTIFIER"

\* C12: every maximal run of letters (A-Z, a-z), digits and underscores
\* that starts with a letter or an underscore is scanned into exactly one
\* token whose lexeme is the run, of the keyword kind when the run is a
\* keyword and IDENTIFIER otherwise; no such run causes a scan error.
C12_RunIsOneToken ==
    \A run \in IdentSources :
        (scanner.source = run /\ ScanTerminated)
        => /\ scanner.status = "done"
           /\ scanner.logger = <<>>
           /\ scanner.tokens =
                 <<Token(RunKind(run), Join(run), 1, Nil), EofToken(1)>>

IsAscii(source) == \A i \in 1..Len(source) : source[i] \notin NonAscii

\* scan_tokens returned a token list that ends with its only EOF token
EndsWithOnlyEof ==
    /\ scanner.tokens # <<>>
    /\ \A i \in 1..Len(scanner.tokens) :
          scanner.tokens[i].type = "EOF" <=> i = Len(scanner.tokens)

\* the rounds scan_tokens can still take, and its return
Remaining ==
    IF scanner.status = "running"
    THEN Len(scanner.source) - scanner.current + 1
    ELSE 0

C13_Safe ==
    IsAscii(scanner.source)
    => /\ scanner.current <= Len(scanner.source)
       /\ Remaining >= 0
       /\ scanner.status = "done" => EndsWithOnlyEof
       /\ scanner.status # "done"
             => \A i \in 1..Len(scanner.tokens) : scanner.tokens[i].type # "EOF"

\* C13: for every finite ASCII source scan_tokens stops: each round of its
\* loop either aborts or strictly advances `current`, which never exceeds
\* the source length, so every step lowers the bounded count Remaining;
\* and when it returns, the token list ends with an EOF token and holds no
\* other EOF token.
C13_ScanTerminates ==
    /\ []C13_Safe
    /\ [][(IsAscii(scanner.source) /\ scan_tokens_loop)
          => \/ scanner'.status = "panicked"
             \/ scanner'.current > scanner.current]_vars
    /\ [][IsAscii(scanner.source) => Remaining' < Remaining]_vars

\* a source of full length was scanned to its end, one token a round
C13_Witness ==
    /\ Len(scanner.source) = MaxSrcLen
    /\ IsAscii(scanner.source)
    /\ scanner.status = "done"
    /\ Len(scanner.tokens) = MaxSrcLen + 1
    /\ EndsWithOnlyEof

\* the tokens of a string literal source with the chars `text` in quotes
StringTokens(text) ==
    <<Token("STRING", "", 1, String(Join(text))), EofToken(1)>>

\* C18: scanner positions are consistently in chars: for a source with a
\* multi-byte char inside a string literal or a comment, scan_tokens
\* returns without aborting, the STRING literal is exactly the chars
\* between the quotes, and every other token is as for an ASCII char.
C18_ScalarPositions ==
    \A pre \in Affixes, post \in Affixes :
        /\ (scanner.source = UnicodeString(pre, post) /\ ScanTerminated)
           => /\ scanner.status = "done"
              /\ scanner.tokens = StringTokens(pre \o <<EAcute>> \o post)
        /\ (scanner.source = UnicodeComment(pre, post) /\ ScanTerminated)
           => /\ scanner.status = "done"
              /\ scanner.tokens =
                    <<Token("SEMICOLON", ";", 2, Nil), EofToken(2)>>

(***************************************************************************)
(* Properties of the parser.                                               *)
(***************************************************************************)
ParseTerminated == parser.status \in {"done", "panicked", "exited"}

\* the precedence ladder, lowest level first
Ladder ==
    << {"OR"}, {"AND"}, {"BANG_EQUAL", "EQUAL_EQUAL"},
       {"GREATER", "GREATER_EQUAL", "LESS", "LESS_EQUAL"},
       {"MINUS", "PLUS"}, {"STAR", "SLASH"} >>

Level(op) == CHOOSE i \in 1..Len(Ladder) : op \in Ladder[i]

Node(l, op, r) ==
    IF op \in {"OR", "AND"} THEN Logical(l, op, r) ELSE Binary(l, op, r)

\* the tree the ladder gives  x op1 1 op2 y
Laddered(op1, op2) ==
    IF Level(op1) >= Level(op2)
    THEN Node(Node(Var("x"), op1, Literal(Num(1))), op2, Var("y"))
    ELSE Node(Var("x"), op1, Node(Literal(Num(1)), op2, Var("y")))

\* C14: for operators op1, op2 of the ladder or < and < equality <
\* comparison < term < factor, `a op1 b op2 c` parses to ((a op1 b) op2 c)
\* when op1's level is at least op2's and to (a op1 (b op2 c)) when op2's
\* level is strictly higher; a unary `!` or `-` binds tighter than every
\* binary operator.
C14_Precedence ==
    /\ \A op1 \in InfixOps, op2 \in InfixOps :
          (parser.tokens = InfixTokens(op1, op2) /\ ParseTerminated)
          => /\ parser.status = "done"
             /\ parser.statements = <<ExpressionStmt(Laddered(op1, op2))>>
    /\ \A u \in PrefixOps, op \in InfixOps :
          (parser.tokens = PrefixTokens(u, op) /\ ParseTerminated)
          => /\ parser.status = "done"
             /\ parser.statements =
                   <<ExpressionStmt(Node(Unary(u, Var("x")), op,
                                         Literal(Num(1))))>>

\* `x - 1 * y ;` was parsed with the product under the difference
C14_Witness ==
    /\ parser.tokens = InfixTokens("MINUS", "STAR")
    /\ parser.status = "done"
    /\ parser.statements =
          <<ExpressionStmt(Binary(Var("x"), "MINUS",
                                  Binary(Literal(Num(1)), "STAR", Var("y"))))>>

\* C15: `a = b = e` parses to Assign(a, Assign(b, e)); and whenever the
\* expression parsed to the left of an `=` is anything but a bare variable
\* reference, the parse aborts and no statement list is returned.
C15_Assignment ==
    /\ (parser.tokens = ChainTokens /\ ParseTerminated)
       => /\ parser.status = "done"
          /\ parser.statements =
                <<ExpressionStmt(Assign("x", Assign("y", Literal(Num(1)))))>>
    /\ \A target \in Targets, nested \in BOOLEAN :
          parser.tokens = TargetTokens(target, nested)
          => /\ parser.status # "done"
             /\ parser.statements = <<>>
             /\ ParseTerminated => parser.status \in {"panicked", "exited"}

\* the parse of `( x ) = 2 ;` was aborted
C15_Witness ==
    /\ parser.tokens =
          TargetTokens(<<Punct("LEFT_PAREN"), Ident("x"),
                         Punct("RIGHT_PAREN")>>, FALSE)
    /\ parser.status = "panicked"
    /\ parser.statements = <<>>

\* the rounds parse can still take, and its return
ParseRemaining ==
    IF parser.status = "running"
    THEN Len(parser.tokens) - parser.current
    ELSE 0

C16_Safe ==
    /\ parser.current < Len(parser.tokens)
    /\ ParseRemaining >= 0
    /\ parser.status = "done" => Parser_peek(parser).type = "EOF"
    /\ \A forms \in FormLists :
          (parser.tokens = TokensOf(forms) /\ ParseTerminated)
          => /\ parser.status = "done"
             /\ parser.statements = TreesOf(forms)

\* C16: on a token list that ends with a single EOF token parse terminates:
\* every declaration() aborts or advances the cursor by at least one token
\* (so every step lowers the bounded count ParseRemaining), the cursor
\* never passes the EOF token, and when parse returns the cursor is on EOF
\* and the statements are in source order: each round appends one, and a
\* well-formed program yields the trees of its statements in their order.
C16_ParseTerminates ==
    /\ []C16_Safe
    /\ [][parse_loop
          => \/ parser'.status \in {"panicked", "exited"}
             \/ /\ parser'.current > parser.current
                /\ Len(parser'.statements) = Len(parser.statements) + 1
                /\ IsPrefix(parser.statements, parser'.statements)]_vars
    /\ [][ParseRemaining' < ParseRemaining]_vars

\* a program of MaxStmts different statements was parsed to its end
C16_Witness ==
    /\ parser.status = "done"
    /\ Len(parser.statements) = MaxStmts
    /\ \A i, j \in 1..MaxStmts :
          parser.statements[i] = parser.statements[j] => i = j
    /\ \E forms \in FormLists : parser.tokens = TokensOf(forms)

====
